---------------------------- MODULE Spec2Model ----------------------------
(***************************************************************************)
(* Model of src/main.py: the UPI link builder generate_upi_link, the QR    *)
(* encoder wrapper generate_qr_code_base64, and the Streamlit script that  *)
(* drives them from four buttons and two input widgets.                    *)
(*                                                                         *)
(* Texts are sequences of Unicode code points.  Python values are tagged   *)
(* records: None, str, float.  A float is either nan, inf, -inf or the     *)
(* finite value num / AmountDen; AmountDen is a power of two, so every     *)
(* modelled amount is exactly a double and "%.2f" rounds its exact value.  *)
(***************************************************************************)
EXTENDS Integers, Sequences, FiniteSets, TLC

VARIABLES
    session,          \* st.session_state: a function from the present keys
    amount,           \* value of the number_input widget (a float)
    customer_upi_id,  \* value of the text_input widget (a str)
    rendered,         \* buttons the last script run rendered
    run_error,        \* exception that ended the last script run, or "none"
    qr_call,          \* argument the last run passed to generate_qr_code_base64
    qr_shown,         \* what the last run's QR display got back from the encoder
    receipt_shown,    \* whether the last run displayed the receipt box
    last_event,       \* the UI event that started the last run
    receipt_generated,\* whether the last run executed the Generate Receipt handler
    fresh_link,       \* history: a link was stored and no receipt generated since
    double_receipt,   \* history: a receipt was generated with no fresh link
    call              \* a direct call of one of the two functions

vars == <<session, amount, customer_upi_id, rendered, run_error, qr_call,
          qr_shown, receipt_shown, last_event, receipt_generated, fresh_link,
          double_receipt, call>>

uiVars == <<session, amount, customer_upi_id, rendered, run_error, qr_call,
            qr_shown, receipt_shown, last_event, receipt_generated, fresh_link,
            double_receipt>>

-----------------------------------------------------------------------------
(* Bounds of the model *)

MaxIdLen == 1         \* longest upi_id built from IdAlphabet
MaxNameLen == 2       \* longest name built from NameAlphabet
MaxAmountNum == 9     \* largest numerator of the small finite amounts
AmountBits == 3       \* finite amounts are multiples of 2^-AmountBits
MaxPayloadLen == 3    \* longest QR payload built from PayloadAlphabet
MaxWidgetNum == 3     \* largest numerator the amount widget is set to
NumTimes == 2         \* distinct readings of datetime.now()

AmountDen == 2 ^ AmountBits

-----------------------------------------------------------------------------
(* Text: literals and Python value tags *)

AsciiPrintable ==
    << " ", "!", "DQUOTE", "#", "$", "%", "&", "'", "LPAREN", "RPAREN", "STAR", "+", ",", "-",
       ".", "/", "0", "1", "2", "3", "4", "5", "6", "7", "8", "9", ":", ";",
       "<", "=", ">", "?", "@", "A", "B", "C", "D", "E", "F", "G", "H", "I",
       "J", "K", "L", "M", "N", "O", "P", "Q", "R", "S", "T", "U", "V", "W",
       "X", "Y", "Z", "[", "BACKSLASH", "]", "^", "_", "BACKTICK", "a", "b", "c", "d", "e",
       "f", "g", "h", "i", "j", "k", "l", "m", "n", "o", "p", "q", "r", "s",
       "t", "u", "v", "w", "x", "y", "z", "{", "|", "}", "~" >>

\* ord(c) of a printable ASCII character (the table lists code points 32..126
\* in order; a few characters are spelled by name)
Ord(c) == 31 + (CHOOSE i \in 1..Len(AsciiPrintable) : AsciiPrintable[i] = c)

\* the text of a literal given character by character
Lit(cs) == [i \in 1..Len(cs) |-> Ord(cs[i])]

None == [type |-> "NoneType"]
Str(s) == [type |-> "str", s |-> s]
Float(n) == [type |-> "float", kind |-> "finite", num |-> n]
NaN == [type |-> "float", kind |-> "nan", num |-> 0]
PosInf == [type |-> "float", kind |-> "inf", num |-> 1]
NegInf == [type |-> "float", kind |-> "-inf", num |-> -1]

\* bool(v) for None, str and float
Truthy(v) ==
    CASE v.type = "NoneType" -> FALSE
      [] v.type = "str" -> Len(v.s) > 0
      [] v.type = "float" -> ~(v.kind = "finite" /\ v.num = 0)

\* amount > 0 for a float (nan compares false)
GreaterThanZero(v) ==
    CASE v.kind = "finite" -> v.num > 0
      [] v.kind = "inf" -> TRUE
      [] OTHER -> FALSE

TextsUpTo(alphabet, n) == UNION {[1..k -> alphabet] : k \in 0..n}


RECURSIVE Flatten(_)
\* concatenation of a sequence of sequences
Flatten(ss) ==
    IF Len(ss) = 0 THEN <<>>
    ELSE IF Len(ss) = 1 THEN ss[1]
    ELSE LET h == Len(ss) \div 2
         IN  Flatten(SubSeq(ss, 1, h)) \o Flatten(SubSeq(ss, h + 1, Len(ss)))

-----------------------------------------------------------------------------
(* Configuration, main.py lines 9-10 *)

MERCHANT_UPI_ID ==
    Str(Lit(<<"c","o","s","t","a","c","o","f","f","e","e","@","u","p","i">>))
MERCHANT_NAME == Str(Lit(<<"C","o","s","t","a"," ","C","o","f","f","e","e">>))

-----------------------------------------------------------------------------
(* urllib.parse.quote(name), as called on line 26: the text is encoded as    *)
(* UTF-8 and every byte outside the always-safe set and "/" becomes %XX.    *)

\* str.encode("utf-8") of one code point (a Unicode scalar value)
Utf8Bytes(cp) ==
    IF cp < 128 THEN <<cp>>
    ELSE IF cp < 2048 THEN <<192 + (cp \div 64), 128 + (cp % 64)>>
    ELSE IF cp < 65536
         THEN <<224 + (cp \div 4096), 128 + ((cp \div 64) % 64), 128 + (cp % 64)>>
    ELSE <<240 + (cp \div 262144), 128 + ((cp \div 4096) % 64),
           128 + ((cp \div 64) % 64), 128 + (cp % 64)>>

\* str.encode("utf-8")
Utf8Encode(text) == Flatten([i \in 1..Len(text) |-> Utf8Bytes(text[i])])

HexDigits ==
    Lit(<<"0","1","2","3","4","5","6","7","8","9","A","B","C","D","E","F">>)

\* the bytes quote leaves alone: A-Z a-z 0-9 _ . - ~ and the default safe "/"
QuoteSafe(b) ==
    \/ b \in Ord("A")..Ord("Z")
    \/ b \in Ord("a")..Ord("z")
    \/ b \in Ord("0")..Ord("9")
    \/ b \in {Ord("_"), Ord("."), Ord("-"), Ord("~"), Ord("/")}

\* mutant of QuoteByte: "&" and "=" are treated as safe
QuoteByteKeepsDelims(b) ==
    IF QuoteSafe(b) \/ b \in {Ord("&"), Ord("=")} THEN <<b>>
    ELSE <<Ord("%"), HexDigits[(b \div 16) + 1], HexDigits[(b % 16) + 1]>>

\* one byte as quote writes it: itself, or "%" and two upper-case hex digits
QuoteByte(b) ==
    IF QuoteSafe(b) THEN <<b>>
    ELSE <<Ord("%"), HexDigits[(b \div 16) + 1], HexDigits[(b % 16) + 1]>>

quote(text) ==
    LET bs == Utf8Encode(text)
    IN  Flatten([i \in 1..Len(bs) |-> QuoteByte(bs[i])])

-----------------------------------------------------------------------------
(* f"{amount:.2f}", line 27 *)

RECURSIVE DecimalDigits(_)
\* str(n) for a natural number n
DecimalDigits(n) ==
    IF n < 10 THEN <<Ord("0") + n>>
    ELSE Append(DecimalDigits(n \div 10), Ord("0") + (n % 10))

\* a / b rounded to the nearest integer, ties to even (the exact value of the
\* double is rounded, as the C library's "%.2f" does)
RoundHalfEven(a, b) ==
    LET q == a \div b
        r == a % b
    IN  IF 2 * r < b THEN q
        ELSE IF 2 * r > b THEN q + 1
        ELSE IF q % 2 = 0 THEN q ELSE q + 1

Abs(n) == IF n < 0 THEN -n ELSE n

\* format(amount, ".2f")
Format2f(v) ==
    CASE v.kind = "nan" -> Lit(<<"n","a","n">>)
      [] v.kind = "inf" -> Lit(<<"i","n","f">>)
      [] v.kind = "-inf" -> Lit(<<"-","i","n","f">>)
      [] OTHER ->
           LET h == RoundHalfEven(Abs(v.num) * 100, AmountDen)
           IN  (IF v.num < 0 THEN <<Ord("-")>> ELSE <<>>)
               \o DecimalDigits(h \div 100)
               \o <<Ord("."), Ord("0") + ((h % 100) \div 10), Ord("0") + (h % 10)>>

-----------------------------------------------------------------------------
(* generate_upi_link, lines 13-27 *)

\* mutant of LinkInputsOk: amount >= 0 is accepted
LinkInputsOkZeroAllowed(upi_id, name, amt) ==
    /\ Truthy(upi_id)
    /\ Truthy(name)
    /\ amt # None
    /\ (GreaterThanZero(amt) \/ (amt.kind = "finite" /\ amt.num = 0))

\* the condition of line 23: upi_id and name and amount is not None and amount > 0
LinkInputsOk(upi_id, name, amt) ==
    /\ Truthy(upi_id)
    /\ Truthy(name)
    /\ amt # None
    /\ GreaterThanZero(amt)

generate_upi_link(upi_id, name, amt) ==
    IF ~LinkInputsOk(upi_id, name, amt) THEN None
    ELSE Str(Lit(<<"u","p","i",":","/","/","p","a","y","?","p","a","=">>)
             \o upi_id.s
             \o Lit(<<"&","p","n","=">>) \o quote(name.s)
             \o Lit(<<"&","a","m","=">>) \o Format2f(amt)
             \o Lit(<<"&","c","u","=","I","N","R">>))

-----------------------------------------------------------------------------
(* generate_qr_code_base64, lines 30-52.  The body delegates to the qrcode *)
(* library and to base64; the definitions below state what those calls do  *)
(* to the payload: the text becomes UTF-8 bytes, the bytes are split into   *)
(* numeric / alphanumeric / byte segments, the smallest symbol version that *)
(* holds them at error-correction level H is chosen (make(fit=True)), and   *)
(* the data codewords are laid out in the symbol.  The error-correction     *)
(* codewords, the mask and the PNG compression add redundancy and framing   *)
(* around the data codewords and are not modelled: the image is carried as  *)
(* its header (version, box size, border) followed by the data codewords.   *)

QR_VERSION == 1       \* QRCode(version=1, ...), the version the fit starts at
BOX_SIZE == 10        \* QRCode(box_size=10)
BORDER == 4           \* QRCode(border=4)
OPTIMIZE_MIN == 20    \* add_data(data): optimize defaults to 20
MAX_VERSION == 40     \* the largest QR symbol version

\* data codewords of versions 1..40 at error-correction level H
\* (error_correction=qrcode.constants.ERROR_CORRECT_H)
DataCodewordsH ==
    << 9, 16, 26, 36, 46, 60, 66, 86, 100, 122,
       140, 158, 180, 197, 223, 253, 283, 313, 341, 385,
       406, 442, 464, 514, 538, 596, 628, 661, 701, 745,
       793, 845, 901, 961, 986, 1054, 1096, 1142, 1222, 1276 >>

BitLimit(version) == 8 * DataCodewordsH[version]

\* the 45 characters of alphanumeric mode, in value order
ALPHA_NUM ==
    Lit(<<"0","1","2","3","4","5","6","7","8","9","A","B","C","D","E","F","G",
          "H","I","J","K","L","M","N","O","P","Q","R","S","T","U","V","W","X",
          "Y","Z"," ","$","%","STAR","+","-",".","/",":">>)

DigitBytes == Ord("0")..Ord("9")
AlphaNumBytes == {ALPHA_NUM[i] : i \in 1..Len(ALPHA_NUM)}

Min(S) == CHOOSE x \in S : \A y \in S : x <= y
Max(S) == CHOOSE x \in S : \A y \in S : x >= y

\* re.search of a run of at least `minimum` bytes of class cls: <<start, end>>
\* (1-based, inclusive) of the leftmost, longest run, or <<0, 0>>
FirstRun(data, cls, minimum) ==
    LET n == Len(data)
        starts == {i \in 1..(n - minimum + 1) :
                      \A j \in i..(i + minimum - 1) : data[j] \in cls}
    IN  IF starts = {} THEN <<0, 0>>
        ELSE LET st == Min(starts)
                 en == Max({e \in st..n : \A j \in st..e : data[j] \in cls})
             IN  <<st, en>>

RECURSIVE OptimalSplit(_, _, _, _)
\* _optimal_split: the data cut into <<matches, bytes>> pieces.  With
\* `anchored` (the whole payload is no longer than the minimum) the pattern
\* is ^[cls]+$, otherwise [cls]{minimum,}.
OptimalSplit(data, cls, minimum, anchored) ==
    IF data = <<>> THEN <<>>
    ELSE IF anchored
    THEN IF \A j \in 1..Len(data) : data[j] \in cls
         THEN << <<TRUE, data>> >> ELSE << <<FALSE, data>> >>
    ELSE LET run == FirstRun(data, cls, minimum)
         IN  IF run[1] = 0 THEN << <<FALSE, data>> >>
             ELSE (IF run[1] > 1
                   THEN << <<FALSE, SubSeq(data, 1, run[1] - 1)>> >> ELSE <<>>)
                  \o << <<TRUE, SubSeq(data, run[1], run[2])>> >>
                  \o OptimalSplit(SubSeq(data, run[2] + 1, Len(data)),
                                  cls, minimum, anchored)

\* the segments made of the pieces of one non-numeric part
AlphaChunks(alphaParts) ==
    [i \in 1..Len(alphaParts) |->
        [mode |-> IF alphaParts[i][1] THEN "alnum" ELSE "byte",
         data |-> alphaParts[i][2]]]

\* the segments made of one piece of the numeric split
PartChunks(part, minimum, anchored) ==
    IF part[1] THEN << [mode |-> "numeric", data |-> part[2]] >>
    ELSE AlphaChunks(OptimalSplit(part[2], AlphaNumBytes, minimum, anchored))

PartsChunks(numParts, minimum, anchored) ==
    Flatten([i \in 1..Len(numParts) |-> PartChunks(numParts[i], minimum, anchored)])

\* optimal_data_chunks(data, minimum): the segments add_data stores
OptimalDataChunks(data, minimum) ==
    PartsChunks(OptimalSplit(data, DigitBytes, minimum, Len(data) <= minimum),
                minimum, Len(data) <= minimum)

\* the 4-bit mode indicator
ModeIndicator(mode) ==
    CASE mode = "numeric" -> 1 [] mode = "alnum" -> 2 [] mode = "byte" -> 4

\* width of the character-count field (mode_sizes_for_version)
LengthBits(mode, version) ==
    IF version < 10
    THEN CASE mode = "numeric" -> 10 [] mode = "alnum" -> 9 [] mode = "byte" -> 8
    ELSE IF version < 27
    THEN CASE mode = "numeric" -> 12 [] mode = "alnum" -> 11 [] mode = "byte" -> 16
    ELSE CASE mode = "numeric" -> 14 [] mode = "alnum" -> 13 [] mode = "byte" -> 16

\* bits a segment's data takes
DataBits(chunk) ==
    LET n == Len(chunk.data)
    IN  CASE chunk.mode = "numeric" ->
                 (10 * (n \div 3)) + (CASE n % 3 = 0 -> 0 [] n % 3 = 1 -> 4
                                        [] n % 3 = 2 -> 7)
          [] chunk.mode = "alnum" -> (11 * (n \div 2)) + (6 * (n % 2))
          [] chunk.mode = "byte" -> 8 * n

RECURSIVE SumSeq(_)
SumSeq(ns) == IF ns = <<>> THEN 0 ELSE Head(ns) + SumSeq(Tail(ns))

NeededBits(chunks, version) ==
    SumSeq([i \in 1..Len(chunks) |->
               4 + LengthBits(chunks[i].mode, version) + DataBits(chunks[i])])

\* the versions from start on that hold `needed` bits
\* (bisect_left on BIT_LIMIT_TABLE)
FittingVersions(needed, start) ==
    {v \in start..MAX_VERSION : BitLimit(v) >= needed}

SameLengthBits(v, w) ==
    \A m \in {"numeric", "alnum", "byte"} : LengthBits(m, v) = LengthBits(m, w)

RECURSIVE BestFit(_, _)
RECURSIVE BestFitAmong(_, _, _)
\* QRCode.best_fit(start): the smallest version from `start` whose data
\* capacity holds the segments, recomputed if the count fields widen;
\* MAX_VERSION + 1 stands for DataOverflowError
BestFit(chunks, start) ==
    BestFitAmong(chunks, start, FittingVersions(NeededBits(chunks, start), start))

BestFitAmong(chunks, start, fits) ==
    IF fits = {} THEN MAX_VERSION + 1
    ELSE IF SameLengthBits(Min(fits), start) THEN Min(fits)
    ELSE BestFit(chunks, Min(fits))

\* BitBuffer.put(value, width): the bits of value, most significant first
ToBits(value, width) ==
    [i \in 1..width |-> (value \div (2 ^ (width - i))) % 2]

\* index of a byte in ALPHA_NUM, from 0
AlphaIndex(b) == (CHOOSE i \in 1..Len(ALPHA_NUM) : ALPHA_NUM[i] = b) - 1

\* QRData.write: the data bits of one segment
ChunkDataBits(chunk) ==
    LET d == chunk.data
        n == Len(d)
        Digit(k) == d[k] - Ord("0")
        NumGroup(g) ==      \* group g (from 0) of up to three digits
            LET len == IF n - (3 * g) >= 3 THEN 3 ELSE n - (3 * g)
                k == (3 * g) + 1
            IN  CASE len = 3 -> ToBits((100 * Digit(k)) + (10 * Digit(k + 1))
                                       + Digit(k + 2), 10)
                  [] len = 2 -> ToBits((10 * Digit(k)) + Digit(k + 1), 7)
                  [] len = 1 -> ToBits(Digit(k), 4)
        AlphaGroup(g) ==    \* group g (from 0) of up to two characters
            LET k == (2 * g) + 1
            IN  IF k + 1 <= n
                THEN ToBits((45 * AlphaIndex(d[k])) + AlphaIndex(d[k + 1]), 11)
                ELSE ToBits(AlphaIndex(d[k]), 6)
    IN  CASE chunk.mode = "numeric" ->
                 Flatten([g \in 1..((n + 2) \div 3) |-> NumGroup(g - 1)])
          [] chunk.mode = "alnum" ->
                 Flatten([g \in 1..((n + 1) \div 2) |-> AlphaGroup(g - 1)])
          [] chunk.mode = "byte" ->
                 Flatten([k \in 1..n |-> ToBits(d[k], 8)])

\* the bit buffer create_data fills before padding: per segment the mode
\* indicator, the character count and the data
SegmentBits(chunks, version) ==
    Flatten([i \in 1..Len(chunks) |->
                ToBits(ModeIndicator(chunks[i].mode), 4)
                \o ToBits(Len(chunks[i].data),
                          LengthBits(chunks[i].mode, version))
                \o ChunkDataBits(chunks[i])])

\* the number of 0 bits after the segments: a terminator of up to four
\* bits, then 0 bits to the byte boundary
ZeroBits(len, limit) ==
    LET term == IF limit - len < 4 THEN limit - len ELSE 4
    IN  term + (IF (len + term) % 8 = 0 THEN 0 ELSE 8 - ((len + term) % 8))

\* create_data: the segment bits, the terminator and alignment bits, then the
\* pad codewords 0xEC, 0x11 alternately up to the capacity
Pad(seg, limit) ==
    seg \o [i \in 1..ZeroBits(Len(seg), limit) |-> 0]
        \o Flatten([i \in 1..((limit - (Len(seg) + ZeroBits(Len(seg), limit)))
                              \div 8) |->
                       ToBits(IF i % 2 = 1 THEN 236 ELSE 17, 8)])

PaddedBits(chunks, version) ==
    Pad(SegmentBits(chunks, version), BitLimit(version))

\* the bits taken eight at a time
BitsToBytes(bits) ==
    [i \in 1..(Len(bits) \div 8) |->
        LET b == 8 * (i - 1)
        IN  (128 * bits[b + 1]) + (64 * bits[b + 2]) + (32 * bits[b + 3])
            + (16 * bits[b + 4]) + (8 * bits[b + 5]) + (4 * bits[b + 6])
            + (2 * bits[b + 7]) + bits[b + 8]]

\* mutant of QRPayload: the payload is cut to its first character
QRPayloadTruncated(data) == SubSeq(data, 1, 1)

\* qr.add_data(data): the payload handed to the encoder
QRPayload(data) == data

\* make_image and img.save: the bytes of the image of the symbol, or
\* overflow when no version holds the payload (DataOverflowError)
SymbolImage(chunks, version) ==
    IF version > MAX_VERSION THEN [overflow |-> TRUE, bytes |-> <<>>]
    ELSE [overflow |-> FALSE,
          bytes |-> <<version, BOX_SIZE, BORDER>>
                    \o BitsToBytes(PaddedBits(chunks, version))]

\* qr.make(fit=True) on the stored segments
MakeFit(chunks) == SymbolImage(chunks, BestFit(chunks, QR_VERSION))

QRImageBytes(data) ==
    MakeFit(OptimalDataChunks(Utf8Encode(QRPayload(data)), OPTIMIZE_MIN))

Base64Alphabet ==
    Lit(<<"A","B","C","D","E","F","G","H","I","J","K","L","M","N","O","P","Q",
          "R","S","T","U","V","W","X","Y","Z","a","b","c","d","e","f","g","h",
          "i","j","k","l","m","n","o","p","q","r","s","t","u","v","w","x","y",
          "z","0","1","2","3","4","5","6","7","8","9","+","/">>)

\* base64.b64encode(bytes).decode("utf-8")
Base64Encode(bs) ==
    LET n == Len(bs)
        At(k) == IF k <= n THEN bs[k] ELSE 0
    IN  [k \in 1..(4 * ((n + 2) \div 3)) |->
            LET g == (k - 1) \div 4
                pos == (k - 1) % 4
                v == (65536 * At((3 * g) + 1)) + (256 * At((3 * g) + 2))
                     + At((3 * g) + 3)
            IN  IF (pos = 2 /\ (3 * g) + 2 > n) \/ (pos = 3 /\ (3 * g) + 3 > n)
                THEN Ord("=")
                ELSE Base64Alphabet[((v \div (64 ^ (3 - pos))) % 64) + 1]]

Raise(exc) == [type |-> "raise", exc |-> exc]

\* lines 50-52: the image bytes base64-encoded; a DataOverflowError raised
\* by qr.make propagates
EncodeImage(img) ==
    IF img.overflow THEN Raise("DataOverflowError")
    ELSE Str(Base64Encode(img.bytes))

generate_qr_code_base64(data) ==
    IF ~Truthy(data) THEN None ELSE EncodeImage(QRImageBytes(data.s))

-----------------------------------------------------------------------------
(* The receiving side, used to state the claims: a URI query parser,        *)
(* percent-decoding, and a QR reader that undoes the layout above.          *)

RECURSIVE Utf8DecodeRec(_)
Utf8DecodeRec(bs) ==
    IF bs = <<>> THEN <<>>
    ELSE LET b == bs[1]
             n == Len(bs)
             Cont(k) == k <= n /\ bs[k] \in 128..191
         IN  IF b < 128 THEN <<b>> \o Utf8DecodeRec(Tail(bs))
             ELSE IF b \in 194..223 /\ Cont(2)
             THEN <<(64 * (b - 192)) + (bs[2] - 128)>>
                  \o Utf8DecodeRec(SubSeq(bs, 3, n))
             ELSE IF b \in 224..239 /\ Cont(2) /\ Cont(3)
             THEN <<(4096 * (b - 224)) + (64 * (bs[2] - 128)) + (bs[3] - 128)>>
                  \o Utf8DecodeRec(SubSeq(bs, 4, n))
             ELSE IF b \in 240..244 /\ Cont(2) /\ Cont(3) /\ Cont(4)
             THEN <<(262144 * (b - 240)) + (4096 * (bs[2] - 128))
                    + (64 * (bs[3] - 128)) + (bs[4] - 128)>>
                  \o Utf8DecodeRec(SubSeq(bs, 5, n))
             ELSE <<65533>> \o Utf8DecodeRec(Tail(bs))   \* U+FFFD

\* bytes.decode("utf-8", errors="replace")
Utf8Decode(bs) ==
    IF \A i \in 1..Len(bs) : bs[i] < 128 THEN bs ELSE Utf8DecodeRec(bs)

IsHex(c) ==
    \/ c \in Ord("0")..Ord("9")
    \/ c \in Ord("A")..Ord("F")
    \/ c \in Ord("a")..Ord("f")

HexValue(c) ==
    IF c \in Ord("0")..Ord("9") THEN c - Ord("0")
    ELSE IF c \in Ord("A")..Ord("F") THEN (c - Ord("A")) + 10
    ELSE (c - Ord("a")) + 10

RECURSIVE UnquoteToBytes(_)
UnquoteToBytes(text) ==
    IF text = <<>> THEN <<>>
    ELSE IF text[1] = Ord("%") /\ Len(text) >= 3 /\ IsHex(text[2]) /\ IsHex(text[3])
    THEN <<(16 * HexValue(text[2])) + HexValue(text[3])>>
         \o UnquoteToBytes(SubSeq(text, 4, Len(text)))
    ELSE Utf8Bytes(text[1]) \o UnquoteToBytes(Tail(text))

\* urllib.parse.unquote
unquote(text) == Utf8Decode(UnquoteToBytes(text))

\* start positions of pat in text
Occurrences(text, pat) ==
    {i \in 1..(Len(text) - Len(pat) + 1) :
        SubSeq(text, i, i + Len(pat) - 1) = pat}

RECURSIVE Split(_, _)
\* text.split(sep) for a one-character separator
Split(text, sep) ==
    LET at == {i \in 1..Len(text) : text[i] = sep}
    IN  IF at = {} THEN <<text>>
        ELSE <<SubSeq(text, 1, Min(at) - 1)>>
             \o Split(SubSeq(text, Min(at) + 1, Len(text)), sep)

\* the values of query parameter `key`, in the order they appear in uri
QueryValues(uri, key) ==
    LET q == {i \in 1..Len(uri) : uri[i] = Ord("?")}
        query == IF q = {} THEN <<>> ELSE SubSeq(uri, Min(q) + 1, Len(uri))
        parts == Split(query, Ord("&"))
        pre == key \o <<Ord("=")>>
        Is(pt) == Len(pt) >= Len(pre) /\ SubSeq(pt, 1, Len(pre)) = pre
    IN  SelectSeq(parts, Is)

\* the parameter `key` the link template writes: the last one in the query
\* (nothing after payeeId in the template can contain "&" or "=")
FieldValues(uri, key) ==
    LET vs == QueryValues(uri, key)
    IN  [i \in 1..Len(vs) |-> SubSeq(vs[i], Len(key) + 2, Len(vs[i]))]

TemplateField(uri, key) ==
    LET vs == FieldValues(uri, key) IN vs[Len(vs)]

Base64Value(c) ==
    IF c = Ord("=") THEN 0
    ELSE (CHOOSE i \in 1..64 : Base64Alphabet[i] = c) - 1

\* base64.b64decode
Base64Decode(text) ==
    LET n == Len(text)
        pad == Cardinality({i \in 1..n : text[i] = Ord("=")})
    IN  [k \in 1..((3 * (n \div 4)) - pad) |->
            LET g == (k - 1) \div 3
                idx == (k - 1) % 3
                v == (262144 * Base64Value(text[(4 * g) + 1]))
                     + (4096 * Base64Value(text[(4 * g) + 2]))
                     + (64 * Base64Value(text[(4 * g) + 3]))
                     + Base64Value(text[(4 * g) + 4])
            IN  (v \div (256 ^ (2 - idx))) % 256]

BitsValue(bits, pos, width) ==
    SumSeq([i \in 1..width |-> bits[pos + i - 1] * (2 ^ (width - i))])

\* the bytes of one segment read back from its data bits at pos
ReadChunk(bits, pos, mode, count) ==
    CASE mode = 4 -> [k \in 1..count |-> BitsValue(bits, pos + (8 * (k - 1)), 8)]
      [] mode = 2 ->
           [k \in 1..count |->
               LET g == (k - 1) \div 2
                   paired == (2 * g) + 2 <= count
                   v == BitsValue(bits, pos + (11 * g), IF paired THEN 11 ELSE 6)
               IN  ALPHA_NUM[(IF ~paired THEN v
                              ELSE IF (k - 1) % 2 = 0 THEN v \div 45
                              ELSE v % 45) + 1]]
      [] mode = 1 ->
           [k \in 1..count |->
               LET g == (k - 1) \div 3
                   glen == IF count - (3 * g) >= 3 THEN 3 ELSE count - (3 * g)
                   w == CASE glen = 3 -> 10 [] glen = 2 -> 7 [] glen = 1 -> 4
                   v == BitsValue(bits, pos + (10 * g), w)
               IN  Ord("0") + ((v \div (10 ^ (glen - 1 - ((k - 1) % 3)))) % 10)]

RECURSIVE ReadSegments(_, _, _)
\* the payload bytes of the segments from bit position pos to the terminator
ReadSegments(bits, pos, version) ==
    IF pos + 3 > Len(bits) THEN <<>>
    ELSE LET ind == BitsValue(bits, pos, 4)
         IN  IF ind \notin {1, 2, 4} THEN <<>>
             ELSE LET mode == CASE ind = 1 -> "numeric" [] ind = 2 -> "alnum"
                                [] ind = 4 -> "byte"
                      lb == LengthBits(mode, version)
                      count == BitsValue(bits, pos + 4, lb)
                      chunk == [mode |-> mode, data |-> [k \in 1..count |-> 0]]
                      start == pos + 4 + lb
                  IN  ReadChunk(bits, start, ind, count)
                      \o ReadSegments(bits, start + DataBits(chunk), version)

\* a QR reader applied to the base64 image text: the decoded payload
ReadQR(b64) ==
    LET img == Base64Decode(b64)
        version == img[1]
        cw == SubSeq(img, 4, Len(img))
        bits == Flatten([i \in 1..Len(cw) |-> ToBits(cw[i], 8)])
    IN  Utf8Decode(ReadSegments(bits, 1, version))

-----------------------------------------------------------------------------
(* The Streamlit script, lines 156-246.  Every UI event (a widget edit or a *)
(* button click) runs the script once from the top; st.session_state and    *)
(* the widget values persist between runs.  A button can be clicked when    *)
(* the previous run rendered it, and st.button returns True in the run the  *)
(* click started, if that run reaches the st.button call.                   *)

EmptySession == [k \in {} |-> None]

Has(sess, k) == k \in DOMAIN sess

\* st.session_state[k] = v
Put(sess, k, v) ==
    [x \in (DOMAIN sess) \cup {k} |-> IF x = k THEN v ELSE sess[x]]

\* the five assignments of lines 169-173 and 185-189
StoreLink(sess, link, show_qr, method) ==
    Put(Put(Put(Put(Put(sess, "upi_link", link), "show_qr", show_qr),
                "show_receipt", FALSE), "transaction_done", FALSE),
        "payment_method", method)

\* lines 165-178: the body of `if st.button("Generate QR Code")`
GenerateQRHandler(sess, amt) ==
    IF Truthy(amt) /\ GreaterThanZero(amt)
    THEN LET upi_link == generate_upi_link(MERCHANT_UPI_ID, MERCHANT_NAME, amt)
         IN  IF Truthy(upi_link)
             THEN [session |-> StoreLink(sess, upi_link, TRUE, "QR Code Scan"),
                   stored |-> TRUE]
             ELSE [session |-> sess, stored |-> FALSE]
    ELSE [session |-> sess, stored |-> FALSE]

\* lines 181-194: the body of `if st.button("Send Request (UPI ID)")`
SendRequestHandler(sess, amt, cust) ==
    IF Truthy(amt) /\ GreaterThanZero(amt) /\ Truthy(cust)
    THEN LET upi_link == generate_upi_link(cust, MERCHANT_NAME, amt)
         IN  IF Truthy(upi_link)
             THEN [session |-> StoreLink(sess, upi_link, FALSE, "UPI ID Request"),
                   stored |-> TRUE]
             ELSE [session |-> sess, stored |-> FALSE]
    ELSE [session |-> sess, stored |-> FALSE]

\* line 197: the condition of the QR display
ShowQR(sess) ==
    Has(sess, "show_qr") /\ sess["show_qr"] /\ Has(sess, "upi_link")

\* lines 208-209.  Python parses the condition as
\*   ('upi_link' in s and s['upi_link'] and 'transaction_done' not in s)
\*   or (not s['transaction_done'])
\* so the subscript on the right is evaluated whenever the left side is false.
ReceiptGuard(sess) ==
    IF /\ Has(sess, "upi_link")
       /\ Truthy(sess["upi_link"])
       /\ ~Has(sess, "transaction_done")
    THEN "true"
    ELSE IF ~Has(sess, "transaction_done") THEN "KeyError"
    ELSE IF ~sess["transaction_done"] THEN "true" ELSE "false"

NotAvailable == Lit(<<"N","/","A">>)

\* lines 213-220: the receipt_details dictionary
ReceiptDetails(sess, amt, cust, now) ==
    [transaction_id |-> now,
     date_time |-> now,
     amount |-> <<8377>> \o Format2f(amt),
     payment_method |-> IF Has(sess, "payment_method")
                        THEN sess["payment_method"] ELSE "N/A",
     customer_upi_id |-> IF Truthy(cust) THEN cust.s ELSE NotAvailable,
     shop_name |-> MERCHANT_NAME.s]

\* the handler without line 223 (show_qr is left as it was)
GenerateReceiptKeepsShowQR(sess, amt, cust, now) ==
    Put(Put(Put(Put(sess, "transaction_done", TRUE), "show_receipt", TRUE),
            "receipt_details", ReceiptDetails(sess, amt, cust, now)),
        "upi_link", None)

\* the handler without line 211 (transaction_done is left as it was)
GenerateReceiptKeepsNotDone(sess, amt, cust, now) ==
    Put(Put(Put(Put(sess, "show_receipt", TRUE),
                "receipt_details", ReceiptDetails(sess, amt, cust, now)),
            "upi_link", None), "show_qr", FALSE)

\* lines 211-223: the body of `if st.button("Generate Receipt")`
GenerateReceiptHandler(sess, amt, cust, now) ==
    Put(Put(Put(Put(Put(sess, "transaction_done", TRUE), "show_receipt", TRUE),
                "receipt_details", ReceiptDetails(sess, amt, cust, now)),
            "upi_link", None), "show_qr", FALSE)

\* line 226: the condition of the receipt display
ShowReceipt(sess) ==
    /\ Has(sess, "show_receipt")
    /\ sess["show_receipt"]
    /\ Has(sess, "receipt_details")

\* a reset that deletes every key but payment_method
NewTransactionKeepsMethod(sess) ==
    [k \in (DOMAIN sess) \cap {"payment_method"} |-> sess[k]]

\* lines 244-245: every key of st.session_state is deleted
NewTransactionHandler(sess) == EmptySession

NotCalled == [called |-> FALSE]
CalledWith(v) == [called |-> TRUE, data |-> v]

\* lines 162-194: the two button columns; at most one button is pressed in
\* a run, `clicked` ("none" for a widget edit, a page load or a rerun)
Buttons(sess, amt, cust, clicked) ==
    CASE clicked = "qr" -> GenerateQRHandler(sess, amt)
      [] clicked = "send" -> SendRequestHandler(sess, amt, cust)
      [] OTHER -> [session |-> sess, stored |-> FALSE]

\* lines 197-205: the QR display and its call of the encoder
QRDisplay(sess) ==
    IF ShowQR(sess)
    THEN [call |-> CalledWith(sess["upi_link"]),
          result |-> generate_qr_code_base64(sess["upi_link"])]
    ELSE [call |-> NotCalled, result |-> None]

\* lines 208-246, after the buttons gave h and the QR display gave d.  An
\* exception ends the run: what was rendered before it stays on the page.
FromQRDisplay(h, d, amt, cust, clicked, now) ==
    LET upTo204 == [session |-> h.session, rendered |-> {"qr", "send"},
                    error |-> "none", qr_call |-> d.call,
                    qr_shown |-> Truthy(d.result),
                    receipt_shown |-> FALSE, generated |-> FALSE,
                    stored |-> h.stored, rerun |-> FALSE]
        guard == ReceiptGuard(h.session)
        generate == guard = "true" /\ clicked = "receipt"
        s3 == IF generate
              THEN GenerateReceiptHandler(h.session, amt, cust, now)
              ELSE h.session
    IN  IF d.result.type = "raise"
        THEN [upTo204 EXCEPT !.error = d.result.exc, !.qr_shown = FALSE]
        ELSE IF guard = "KeyError" THEN [upTo204 EXCEPT !.error = "KeyError"]
        ELSE [upTo204 EXCEPT
                 !.session = IF clicked = "new" THEN NewTransactionHandler(s3)
                             ELSE s3,
                 !.rendered = {"qr", "send", "new"}
                              \cup (IF guard = "true" THEN {"receipt"} ELSE {}),
                 !.receipt_shown = ShowReceipt(s3),
                 !.generated = generate,
                 !.rerun = (clicked = "new")]

\* lines 197-246, after the buttons gave h
FromButtons(h, amt, cust, clicked, now) ==
    FromQRDisplay(h, QRDisplay(h.session), amt, cust, clicked, now)

\* One run of the script, lines 156-246
ScriptBody(sess, amt, cust, clicked, now) ==
    FromButtons(Buttons(sess, amt, cust, clicked), amt, cust, clicked, now)

\* the rerun st.experimental_rerun() (line 246) requests after a run gave r
Rerun(r, amt, cust, now) ==
    IF r.rerun
    THEN [ScriptBody(r.session, amt, cust, "none", now)
             EXCEPT !.stored = r.stored, !.generated = r.generated]
    ELSE r

\* the run an event starts, and the rerun it may request
Run(sess, amt, cust, clicked, now) ==
    Rerun(ScriptBody(sess, amt, cust, clicked, now), amt, cust, now)

\* the number_input of line 158: min_value=0.01, so amount >= 0.01
WidgetAmounts == {Float(n) : n \in {m \in 1..MaxWidgetNum : 100 * m >= AmountDen}}
DefaultAmount == Float(Min({v.num : v \in WidgetAmounts}))

\* the text_input of line 159: free text, empty by default
WidgetIds ==
    {Str(<<>>), Str(Lit(<<"a","@","b">>)), Str(Lit(<<"a","&","p","n","=","x">>))}

Times == 1..NumTimes

\* the variables after a run with outcome r
Shows(r, event) ==
    /\ session' = r.session
    /\ rendered' = r.rendered
    /\ run_error' = r.error
    /\ qr_call' = r.qr_call
    /\ qr_shown' = r.qr_shown
    /\ receipt_shown' = r.receipt_shown
    /\ last_event' = event
    /\ receipt_generated' = r.generated
    /\ fresh_link' = IF r.generated THEN FALSE
                     ELSE IF r.stored THEN TRUE ELSE fresh_link
    /\ double_receipt' = (double_receipt \/ (r.generated /\ ~fresh_link))

NoCall == [fn |-> "none", args |-> <<>>, pc |-> "idle", result |-> None]

\* a fresh session: the first run of the script with an empty session state
FreshUI ==
    \E r \in {Run(EmptySession, DefaultAmount, Str(<<>>), "none", 1)} :
        /\ session = r.session
        /\ amount = DefaultAmount
        /\ customer_upi_id = Str(<<>>)
        /\ rendered = r.rendered
        /\ run_error = r.error
        /\ qr_call = r.qr_call
        /\ qr_shown = r.qr_shown
        /\ receipt_shown = r.receipt_shown
        /\ last_event = "load"
        /\ receipt_generated = FALSE
        /\ fresh_link = FALSE
        /\ double_receipt = FALSE

Init == FreshUI /\ call = NoCall

EditAmount ==
    \E a \in WidgetAmounts \ {amount} :
        /\ amount' = a
        /\ \E r \in {Run(session, a, customer_upi_id, "none", 1)} :
               Shows(r, "edit")
        /\ UNCHANGED <<customer_upi_id, call>>

EditCustomerUpiId ==
    \E c \in WidgetIds \ {customer_upi_id} :
        /\ customer_upi_id' = c
        /\ \E r \in {Run(session, amount, c, "none", 1)} : Shows(r, "edit")
        /\ UNCHANGED <<amount, call>>

ClickGenerateQR ==
    /\ "qr" \in rendered
    /\ \E r \in {Run(session, amount, customer_upi_id, "qr", 1)} :
           Shows(r, "qr")
    /\ UNCHANGED <<amount, customer_upi_id, call>>

ClickSendRequest ==
    /\ "send" \in rendered
    /\ \E r \in {Run(session, amount, customer_upi_id, "send", 1)} :
           Shows(r, "send")
    /\ UNCHANGED <<amount, customer_upi_id, call>>

ClickGenerateReceipt ==
    /\ "receipt" \in rendered
    /\ \E now \in Times :
           \E r \in {Run(session, amount, customer_upi_id, "receipt", now)} :
               Shows(r, "receipt")
    /\ UNCHANGED <<amount, customer_upi_id, call>>

ClickNewTransaction ==
    /\ "new" \in rendered
    /\ \E r \in {Run(session, amount, customer_upi_id, "new", 1)} :
           Shows(r, "new")
    /\ UNCHANGED <<amount, customer_upi_id, call>>

Next ==
    \/ EditAmount
    \/ EditCustomerUpiId
    \/ ClickGenerateQR
    \/ ClickSendRequest
    \/ ClickGenerateReceipt
    \/ ClickNewTransaction

Spec == Init /\ [][Next]_vars

-----------------------------------------------------------------------------
(* Direct calls of generate_upi_link, with arguments of the types its       *)
(* docstring names (str or None, float or None).                            *)

IdAlphabet == {Ord("a"), Ord("&"), Ord("=")}
InjectedId == Str(Lit(<<"a","&","p","n","=","x">>))
LinkIds ==
    {None, MERCHANT_UPI_ID, InjectedId}
    \cup {Str(t) : t \in TextsUpTo(IdAlphabet, MaxIdLen)}

NameAlphabet == {Ord("C"), Ord(" "), Ord("&"), Ord("="), Ord("%"), 233}
LinkNames ==
    {None, MERCHANT_NAME, Str(<<8377, 128512>>)}
    \cup {Str(t) : t \in TextsUpTo(NameAlphabet, MaxNameLen)}

LinkAmounts ==
    {None, NaN, PosInf, NegInf, Float(150 * AmountDen)}
    \cup {Float(n) : n \in (-1)..MaxAmountNum}

LinkInit ==
    /\ FreshUI
    /\ call \in {[fn |-> "generate_upi_link", args |-> <<u, n, a>>,
                  pc |-> "called", result |-> None] :
                    u \in LinkIds, n \in LinkNames, a \in LinkAmounts}

LinkReturn ==
    /\ call.fn = "generate_upi_link"
    /\ call.pc = "called"
    /\ call' = [call EXCEPT
                   !.pc = "returned",
                   !.result = generate_upi_link(call.args[1], call.args[2],
                                                call.args[3])]
    /\ UNCHANGED uiVars

LinkNext == LinkReturn

LinkSpec == LinkInit /\ [][LinkNext]_vars

-----------------------------------------------------------------------------
(* Direct calls of generate_qr_code_base64 *)

PayloadAlphabet == {Ord("a"), Ord("7"), Ord("A"), Ord("%"), 233}

\* the longest payload of byte-mode characters the largest symbol holds
MaxByteModeLen == (BitLimit(MAX_VERSION) - (4 + LengthBits("byte", MAX_VERSION))) \div 8

ExamplePayloads ==
    { generate_upi_link(MERCHANT_UPI_ID, MERCHANT_NAME, Float(150 * AmountDen)),
      Str(Lit(<<"a","b","1","2","3","4","5","6","7","8","9","0","1","2","3",
                "4","5","6","7","8","9","0","1","x","A","B","C","D","E","F",
                "G","H","I","J","K","L","M","N","O","P","Q","R","S","T","U",
                "V","x">>)),
      Str([i \in 1..MaxByteModeLen |-> Ord("a")]),
      Str([i \in 1..(MaxByteModeLen + 1) |-> Ord("a")]) }

Payloads ==
    {None} \cup ExamplePayloads
    \cup {Str(t) : t \in TextsUpTo(PayloadAlphabet, MaxPayloadLen)}

QRInit ==
    /\ FreshUI
    /\ call \in {[fn |-> "generate_qr_code_base64", args |-> <<d>>,
                  pc |-> "called", result |-> None] : d \in Payloads}

QRReturn ==
    /\ call.fn = "generate_qr_code_base64"
    /\ call.pc = "called"
    /\ call' = [call EXCEPT
                   !.pc = "returned",
                   !.result = generate_qr_code_base64(call.args[1])]
    /\ UNCHANGED uiVars

QRNext == QRReturn

QRSpec == QRInit /\ [][QRNext]_vars

-----------------------------------------------------------------------------
(* Properties of generate_upi_link (LinkSpec) *)

LinkReturned == call.fn = "generate_upi_link" /\ call.pc = "returned"

IsNonEmptyStr(v) == v.type = "str" /\ Len(v.s) > 0

IsPositive(v) ==
    v.type = "float" /\ (v.kind = "inf" \/ (v.kind = "finite" /\ v.num > 0))

IsNotPositive(v) ==
    v.type = "float" /\ (v.kind = "-inf" \/ (v.kind = "finite" /\ v.num <= 0))

\* valid inputs: payeeId non-empty, payeeName non-empty, amount > 0
ValidLinkInput ==
    /\ IsNonEmptyStr(call.args[1])
    /\ IsNonEmptyStr(call.args[2])
    /\ IsPositive(call.args[3])

\* the invalid inputs the specification lists
ListedInvalidLinkInput ==
    \/ ~IsNonEmptyStr(call.args[1])
    \/ ~IsNonEmptyStr(call.args[2])
    \/ call.args[3] = None
    \/ IsNotPositive(call.args[3])

KeyPa == Lit(<<"p","a","=">>)
KeyPn == Lit(<<"p","n","=">>)
KeyAm == Lit(<<"a","m","=">>)
KeyCu == Lit(<<"c","u","=">>)

OnceInOrder(uri) ==
    /\ \A k \in {KeyPa, KeyPn, KeyAm, KeyCu} : Cardinality(Occurrences(uri, k)) = 1
    /\ Min(Occurrences(uri, KeyPa)) < Min(Occurrences(uri, KeyPn))
    /\ Min(Occurrences(uri, KeyPn)) < Min(Occurrences(uri, KeyAm))
    /\ Min(Occurrences(uri, KeyAm)) < Min(Occurrences(uri, KeyCu))

\* C1: for all valid inputs, whatever characters payeeId and payeeName
\* contain, the returned URI contains "pa=", "pn=", "am=" and "cu=" exactly
\* once each, in that order.
C1_KeysOnceInOrder ==
    (LinkReturned /\ ValidLinkInput) =>
        (call.result.type = "str" /\ OnceInOrder(call.result.s))

\* C2: generate_upi_link returns None for every invalid input (payeeId or
\* payeeName empty or absent, amount absent or <= 0) and a non-empty string
\* for every valid input: the result is absent exactly when the input is
\* not valid.
C2_AbsentIffInvalid ==
    LinkReturned =>
        /\ ListedInvalidLinkInput => call.result = None
        /\ ValidLinkInput => IsNonEmptyStr(call.result)
        /\ call.result = None <=> ~ValidLinkInput

\* a call with amount 0 and otherwise valid arguments returned None
C2_Witness ==
    /\ LinkReturned
    /\ call.args[1] = MERCHANT_UPI_ID
    /\ call.args[2] = MERCHANT_NAME
    /\ call.args[3] = Float(0)
    /\ call.result = None

PnField == TemplateField(call.result.s, Lit(<<"p","n">>))

\* text pn is a percent-encoding of text name
IsPercentEncodingOf(pn, name) ==
    /\ \A c \in {pn[i] : i \in 1..Len(pn)} :
           c < 128 /\ c \notin {Ord(" "), Ord("&"), Ord("=")}
    /\ unquote(pn) = name

\* C3: for all valid inputs the pn field of the returned URI is the
\* percent-encoding of payeeName: it holds no raw space, "&" or "=" and no
\* non-ASCII character, and percent-decoding it gives payeeName back.
C3_NamePercentEncoded ==
    (LinkReturned /\ ValidLinkInput) =>
        IsPercentEncodingOf(PnField, call.args[2].s)

\* the name "&" followed by e-acute came back as %26%C3%A9
C3_Witness ==
    /\ LinkReturned
    /\ call.args[1] = MERCHANT_UPI_ID
    /\ call.args[2] = Str(<<Ord("&"), 233>>)
    /\ call.args[3] = Float(AmountDen)
    /\ call.result.type = "str"
    /\ PnField = Lit(<<"%","2","6","%","C","3","%","A","9">>)

IsDigit(c) == c \in Ord("0")..Ord("9")

\* one or more digits, ".", exactly two digits
IsFixedPoint2(t) ==
    /\ Len(t) >= 4
    /\ \A i \in 1..(Len(t) - 3) : IsDigit(t[i])
    /\ t[Len(t) - 2] = Ord(".")
    /\ IsDigit(t[Len(t) - 1])
    /\ IsDigit(t[Len(t)])

\* C4: for every amount generate_upi_link accepts (any amount > 0) the am
\* field of the returned URI is fixed-point with exactly two fractional
\* digits.
C4_AmountFixedPoint ==
    (LinkReturned /\ ValidLinkInput) =>
        IsFixedPoint2(TemplateField(call.result.s, Lit(<<"a","m">>)))

-----------------------------------------------------------------------------
(* Properties of generate_qr_code_base64 (QRSpec) *)

QRReturned == call.fn = "generate_qr_code_base64" /\ call.pc = "returned"

\* C5: generate_qr_code_base64 never raises: it returns None for an empty or
\* absent payload and a non-empty base64 string for every non-empty payload,
\* of any length.
C5_EncoderNeverRaises ==
    QRReturned =>
        IF IsNonEmptyStr(call.args[1])
        THEN IsNonEmptyStr(call.result)
        ELSE call.result = None

-----------------------------------------------------------------------------
(* Properties of the script (Spec) *)

\* C7: whenever the QR display calls the encoder, its argument is the
\* session's upi_link and is a non-empty link generate_upi_link returned
\* for the merchant, never None.
C7_QROnlyOnGeneratedLink ==
    qr_call.called =>
        /\ IsNonEmptyStr(qr_call.data)
        /\ \E a \in WidgetAmounts :
               qr_call.data = generate_upi_link(MERCHANT_UPI_ID, MERCHANT_NAME, a)

\* a Generate QR Code click whose run displayed the QR image
C7_Witness == last_event = "qr" /\ qr_call.called /\ qr_shown

FreshRun == Run(EmptySession, DefaultAmount, Str(<<>>), "none", 1)

C9_GuardNeverRaises == run_error # "KeyError"

\* C10: a receipt is generated only for a link stored since the last
\* receipt, and after a receipt the Generate Receipt button is not rendered
\* by any later run until a link is stored again.
C10_OneReceiptPerLink ==
    /\ ~double_receipt
    /\ ("receipt" \in rendered /\ ~receipt_generated) => fresh_link

\* a second click on the Generate Receipt button left on the page by the run
\* that generated the receipt: the run generates nothing
C10_Witness ==
    /\ last_event = "receipt"
    /\ ~receipt_generated
    /\ ~fresh_link
    /\ "receipt" \notin rendered

=============================================================================
